---- MODULE Spec2Model ----
(***************************************************************************)
(* A model of app.py, the APA formatter: the citation scan, the reference  *)
(* keys, the reconciliation report and the session state they run on.      *)
(*                                                                         *)
(* Text is modelled character by character: a Python str is a sequence of  *)
(* one-character strings, so that strip(), lower(), split(), the two       *)
(* citation patterns and sorted() are computed as the code computes them.  *)
(* Python's None is the empty tuple and a present value x is <<x>>.        *)
(***************************************************************************)
EXTENDS Integers, Sequences, FiniteSets, TLC

VARIABLES
    refs,            \* st.session_state.refs
    edit_idx,        \* st.session_state.edit_idx
    uploaded_bytes,  \* st.session_state.uploaded_bytes (the paragraphs of the .docx)
    scan_results,    \* st.session_state.scan_results
    up,              \* the file held by the "Upload .docx" uploader
    imp,             \* the file held by the "Import references (.json)" uploader
    opts,            \* the checkboxes of tab 3
    report,          \* what the run of "Build formatted DOCX" produced
    n_builds,        \* consecutive runs of "Build formatted DOCX" on one input
    probe            \* the last call of a helper function: its arguments and result

vars == <<refs, edit_idx, uploaded_bytes, scan_results, up, imp, opts, report, n_builds, probe>>

None == <<>>
Some(x) == <<x>>

\* The one element of a set. The({e(x) : x \in {v}}) is e(v), with v evaluated
\* once however often e uses it.
The(S) == CHOOSE y \in S : TRUE

(***************************************************************************)
(* Characters                                                              *)
(***************************************************************************)

UpperChars == <<"A","B","C","D","E","F","G","H","I","J","K","L","M",
                "N","O","P","Q","R","S","T","U","V","W","X","Y","Z">>
LowerChars == <<"a","b","c","d","e","f","g","h","i","j","k","l","m",
                "n","o","p","q","r","s","t","u","v","w","x","y","z">>
DigitChars == <<"0","1","2","3","4","5","6","7","8","9">>

\* The characters of the model in code point order (the order of str comparison).
CharOrder == <<"\n", " ", "&", "'", "(", ")", ",", "-", ".">> \o DigitChars
             \o <<":">> \o UpperChars \o <<"[", "]">> \o LowerChars

Range(s) == {s[i] : i \in 1..Len(s)}
Chars == Range(CharOrder)
Uppers == Range(UpperChars)
Lowers == Range(LowerChars)
Digits == Range(DigitChars)
Letters == Uppers \cup Lowers

IndexIn(s, c) == CHOOSE i \in 1..Len(s) : s[i] = c

Code == [c \in Chars |-> IndexIn(CharOrder, c)]
LowerOf == [c \in Chars |-> IF c \in Uppers THEN LowerChars[IndexIn(UpperChars, c)] ELSE c]
UpperOf == [c \in Chars |-> IF c \in Lowers THEN UpperChars[IndexIn(LowerChars, c)] ELSE c]

\* str.isspace(), which is also the pattern class \s
IsSpace(c) == c \in {" ", "\n"}
\* the pattern class \w, which decides the word boundary \b
IsWord(c) == c \in Letters \cup Digits

(***************************************************************************)
(* str operations                                                          *)
(***************************************************************************)

lower(s) == [i \in 1..Len(s) |-> LowerOf[s[i]]]
upper(s) == [i \in 1..Len(s) |-> UpperOf[s[i]]]

RECURSIVE lstrip(_)
lstrip(s) == IF s # <<>> /\ IsSpace(s[1]) THEN lstrip(Tail(s)) ELSE s

RECURSIVE rstrip(_)
rstrip(s) == IF s # <<>> /\ IsSpace(s[Len(s)]) THEN rstrip(SubSeq(s, 1, Len(s) - 1)) ELSE s

\* str.strip()
strip(s) == rstrip(lstrip(s))

\* _strip without its .strip()
StripMutantNoTrim(o) == IF o = None THEN <<>> ELSE o[1]

\* _strip(s): (s or "").strip(), s an optional str
_strip(o) == IF o = None THEN <<>> ELSE strip(o[1])

\* the end of the run of characters of a class that starts at i: the first
\* j >= i with s[j] outside the class, Len(s) + 1 if there is none
SkipClass(s, i, class) ==
    IF i > Len(s) THEN i
    ELSE CHOOSE j \in i..(Len(s) + 1) :
            /\ j = Len(s) + 1 \/ s[j] \notin class
            /\ \A k \in i..(j - 1) : s[k] \in class

Spaces == {" ", "\n"}
SkipSpace(s, i) == SkipClass(s, i, Spaces)
SkipWord(s, i) == SkipClass(s, i, Chars \ Spaces)

\* s.split()[0] for an s with a character that is not whitespace
FirstWord(s) ==
    LET b == SkipSpace(s, 1)
    IN  SubSeq(s, b, SkipWord(s, b) - 1)

\* sep.join(parts)
RECURSIVE join(_, _)
join(sep, parts) ==
    IF parts = <<>> THEN <<>>
    ELSE IF Len(parts) = 1 THEN parts[1]
    ELSE parts[1] \o sep \o join(sep, Tail(parts))

\* s.startswith(t) at index i
MatchesAt(s, i, t) ==
    /\ i + Len(t) - 1 <= Len(s)
    /\ \A k \in 1..Len(t) : s[i + k - 1] = t[k]

\* s.replace("..", "."): the occurrences are taken left to right and do not
\* overlap, so of a run of dots the 1st, 3rd, 5th, ... are kept.
DotKept(s, i) ==
    \/ s[i] # "."
    \/ LET before == {j \in 1..(i - 1) : s[j] # "."}
           start == IF before = {} THEN 1
                    ELSE 1 + CHOOSE j \in before : \A k \in before : k <= j
       IN  (i - start) % 2 = 0

\* the kept characters of s[lo..hi], in order
RECURSIVE KeptDots(_, _, _)
KeptDots(s, lo, hi) ==
    IF lo > hi THEN <<>>
    ELSE IF lo = hi THEN (IF DotKept(s, lo) THEN <<s[lo]>> ELSE <<>>)
    ELSE LET mid == (lo + hi) \div 2
         IN  KeptDots(s, lo, mid) \o KeptDots(s, mid + 1, hi)

replace_dots(s) == KeptDots(s, 1, Len(s))

\* the order of str: by code point, a proper prefix first
RECURSIVE StrLessFrom(_, _, _)
StrLessFrom(a, b, i) ==
    IF i > Len(b) THEN FALSE
    ELSE IF i > Len(a) THEN TRUE
    ELSE IF a[i] = b[i] THEN StrLessFrom(a, b, i + 1)
    ELSE Code[a[i]] < Code[b[i]]
StrLess(a, b) == StrLessFrom(a, b, 1)

\* the order of a tuple (author, year) of str
KeyLess(x, y) == StrLess(x[1], y[1]) \/ (x[1] = y[1] /\ StrLess(x[2], y[2]))

\* a sort that puts the greatest tuple first
RECURSIVE SortedMutantDescending(_)
SortedMutantDescending(S) ==
    IF S = {} THEN <<>>
    ELSE LET m == CHOOSE x \in S : \A y \in S \ {x} : KeyLess(y, x)
         IN  <<m>> \o SortedMutantDescending(S \ {m})

\* sorted(list(S)) for a set S of (author, year) tuples
RECURSIVE sorted(_)
sorted(S) ==
    IF S = {} THEN <<>>
    ELSE LET m == CHOOSE x \in S : \A y \in S \ {x} : KeyLess(x, y)
         IN  <<m>> \o sorted(S \ {m})

\* str(n) for an int n
RECURSIVE NatStr(_)
NatStr(n) == IF n < 10 THEN <<DigitChars[n + 1]>> ELSE NatStr(n \div 10) \o <<DigitChars[(n % 10) + 1]>>
IntStr(n) == IF n < 0 THEN <<"-">> \o NatStr(0 - n) ELSE NatStr(n)

(***************************************************************************)
(* Values of a reference's "year": None, an int or a str                   *)
(***************************************************************************)

NoneVal == [t |-> "none", n |-> 0, s |-> <<>>]
IntVal(k) == [t |-> "int", n |-> k, s |-> <<>>]
StrVal(x) == [t |-> "str", n |-> 0, s |-> x]

S_nd == <<"n", ".", "d", ".">>

\* re.match(r"^\d{4}$", y) on a stripped y
IsFourDigits(y) == Len(y) = 4 /\ \A i \in 1..4 : y[i] \in Digits

normalize_year(y) ==
    IF y.t = "none" THEN S_nd
    ELSE IF y.t = "int" THEN IntStr(y.n)
    ELSE LET v == _strip(Some(y.s))
         IN  IF v = <<>> THEN S_nd
             ELSE IF lower(v) = S_nd THEN S_nd
             ELSE IF IsFourDigits(v) THEN v ELSE S_nd

(***************************************************************************)
(* The citation patterns and the scan                                      *)
(***************************************************************************)

\* [A-Za-z\-'] and [A-Za-z\-' ]: the character classes of the two patterns
\* (the typographic apostrophe they also list is not a character of the model)
NarrClass == Letters \cup {"-", "'"}
ParenClass == NarrClass \cup {" "}

\* (\d{4}|n\.d\.) at index k
YearAt(s, k) ==
    /\ k + 3 <= Len(s)
    /\ \/ \A d \in 0..3 : s[k + d] \in Digits
       \/ MatchesAt(s, k, S_nd)

\* the characters a fragment may start with
ParenFirst == Letters

\* CITATION_PAREN_RE matched at index i: \(([A-Za-z][A-Za-z\-' ]+?),\s*(\d{4}|n\.d\.)\)
\* The lazy fragment cannot hold a comma, so it ends at the first character
\* outside its class, which must be the comma.
ParenMatchAt(s, i) ==
    LET j == SkipClass(s, i + 2, ParenClass)
        k == SkipSpace(s, j + 1)
    IN  IF /\ i + 1 <= Len(s)
           /\ s[i] = "("
           /\ s[i + 1] \in ParenFirst
           /\ j >= i + 3
           /\ j <= Len(s)
           /\ s[j] = ","
           /\ YearAt(s, k)
           /\ k + 4 <= Len(s)
           /\ s[k + 4] = ")"
        THEN Some([a |-> SubSeq(s, i + 1, j - 1), y |-> SubSeq(s, k, k + 3), end |-> k + 5])
        ELSE None

\* a narrative pattern whose author word may be missing
NarrMatchMutantNoAuthor(s, i) ==
    IF i + 5 <= Len(s) /\ s[i] = "(" /\ YearAt(s, i + 1) /\ s[i + 5] = ")"
    THEN Some([a |-> <<>>, y |-> SubSeq(s, i + 1, i + 4), end |-> i + 6])
    ELSE None

\* CITATION_NARR_RE matched at index i: \b([A-Z][A-Za-z\-']+)\s*\((\d{4}|n\.d\.)\)
\* The greedy fragment takes the whole run of its class: a shorter one would
\* be followed by a character of the class, which is neither \s nor "(".
NarrMatchAt(s, i) ==
    LET j == SkipClass(s, i + 1, NarrClass)
        k == SkipSpace(s, j)
    IN  IF /\ i <= Len(s)
           /\ s[i] \in Uppers
           /\ (i = 1 \/ ~IsWord(s[i - 1]))
           /\ j >= i + 2
           /\ k <= Len(s)
           /\ s[k] = "("
           /\ YearAt(s, k + 1)
           /\ k + 5 <= Len(s)
           /\ s[k + 5] = ")"
        THEN Some([a |-> SubSeq(s, i, j - 1), y |-> SubSeq(s, k + 1, k + 4), end |-> k + 6])
        ELSE None

\* set((m.group(1).strip(), m.group(2)) for m in RE.finditer(text)): the
\* matches left to right, each the leftmost one at or after the end of the
\* match before it
Least(S) == CHOOSE x \in S : \A z \in S : x <= z

RECURSIVE ParenFinditer(_, _)
ParenFinditer(s, pos) ==
    The({IF starts = {} THEN {}
         ELSE The({{<<strip(m.a), m.y>>} \cup ParenFinditer(s, m.end) :
                      m \in {ParenMatchAt(s, Least(starts))[1]}}) :
            starts \in {{i \in pos..Len(s) : ParenMatchAt(s, i) # None}}})

RECURSIVE NarrFinditer(_, _)
NarrFinditer(s, pos) ==
    The({IF starts = {} THEN {}
         ELSE The({{<<strip(m.a), m.y>>} \cup NarrFinditer(s, m.end) :
                      m \in {NarrMatchAt(s, Least(starts))[1]}}) :
            starts \in {{i \in pos..Len(s) : NarrMatchAt(s, i) # None}}})

\* A document is the sequence of its paragraphs' texts (doc.paragraphs, p.text).
\* a scan that lowercases the author text of its mentions
ScanMutantLower(doc) ==
    The({[paren |-> {<<lower(c[1]), c[2]>> : c \in ParenFinditer(text, 1)},
          narr |-> {<<lower(c[1]), c[2]>> : c \in NarrFinditer(text, 1)}] :
            text \in {join(<<"\n">>, doc)}})

scan_docx_for_citations(doc) ==
    The({[paren |-> ParenFinditer(text, 1), narr |-> NarrFinditer(text, 1)] :
            text \in {join(<<"\n">>, doc)}})

S_references == <<"r", "e", "f", "e", "r", "e", "n", "c", "e", "s">>

\* the paragraphs a "references" heading may be: _strip(p.text).lower() == "references"
IsReferencesHeading(text) == lower(_strip(Some(text))) = S_references

\* the index (from 0) of the first heading paragraph, None if there is none
RECURSIVE FindHeadingFrom(_, _)
FindHeadingFrom(doc, i) ==
    IF i > Len(doc) THEN None
    ELSE IF IsReferencesHeading(doc[i]) THEN Some(i - 1)
    ELSE FindHeadingFrom(doc, i + 1)

\* a search that keeps going and returns the last heading
FindHeadingMutantLast(doc) ==
    LET hs == {i \in 1..Len(doc) : IsReferencesHeading(doc[i])}
    IN  IF hs = {} THEN None ELSE Some((CHOOSE i \in hs : \A j \in hs : j <= i) - 1)

find_references_heading_idx(doc) == FindHeadingFrom(doc, 1)

(***************************************************************************)
(* References and their APA strings                                        *)
(***************************************************************************)

\* An author entry {"last", "initials", "suffix"}
Person(last, initials) == [last |-> last, initials |-> initials, suffix |-> <<>>]

\* "authors": the dict {"is_org": True, "org_name": ...} or a list of entries
OrgAuthor(name) == [is_org |-> TRUE, org_name |-> name, people |-> <<>>]
PersonAuthors(list) == [is_org |-> FALSE, org_name |-> <<>>, people |-> list]

S_Unknown == <<"U", "n", "k", "n", "o", "w", "n">>
S_unknown == <<"u", "n", "k", "n", "o", "w", "n">>

\* s or "Unknown"
OrUnknown(s) == IF s = <<>> THEN S_Unknown ELSE s

\* s.strip(","): the commas at both ends removed
RECURSIVE StripCommas(_)
StripCommas(s) ==
    IF s # <<>> /\ s[1] = "," THEN StripCommas(Tail(s))
    ELSE IF s # <<>> /\ s[Len(s)] = "," THEN StripCommas(SubSeq(s, 1, Len(s) - 1))
    ELSE s

\* the name of one author in format_author_list_apa
FormattedName(a) ==
    LET last == _strip(Some(a.last))
        initials == _strip(Some(a.initials))
        suffix == _strip(Some(a.suffix))
        name == StripCommas(strip(last \o <<",", " ">> \o initials))
    IN  IF suffix # <<>> THEN name \o <<",", " ">> \o suffix ELSE name

format_author_list_apa(authors) ==
    IF authors.is_org THEN _strip(Some(authors.org_name))
    ELSE IF authors.people = <<>> THEN <<>>
    ELSE LET formatted == [i \in 1..Len(authors.people) |-> FormattedName(authors.people[i])]
             n == Len(formatted)
         IN  IF n = 1 THEN formatted[1]
             ELSE IF n = 2 THEN formatted[1] \o <<",", " ", "&", " ">> \o formatted[2]
             ELSE join(<<",", " ">>, SubSeq(formatted, 1, n - 1)) \o <<",", " ", "&", " ">> \o formatted[n]

first_author_key(authors) ==
    IF authors.is_org
    THEN LET k == lower(_strip(Some(authors.org_name))) IN IF k = <<>> THEN S_unknown ELSE k
    ELSE IF authors.people = <<>> THEN S_unknown
    ELSE LET k == lower(_strip(Some(authors.people[1].last))) IN IF k = <<>> THEN S_unknown ELSE k

intext_parenthetical(authors, year) ==
    LET y == normalize_year(year)
        last(i) == OrUnknown(_strip(Some(authors.people[i].last)))
    IN  IF authors.is_org
        THEN <<"(">> \o OrUnknown(_strip(Some(authors.org_name))) \o <<",", " ">> \o y \o <<")">>
        ELSE IF authors.people = <<>> THEN <<"(", "U", "n", "k", "n", "o", "w", "n", ",", " ">> \o y \o <<")">>
        ELSE IF Len(authors.people) = 1 THEN <<"(">> \o last(1) \o <<",", " ">> \o y \o <<")">>
        ELSE IF Len(authors.people) = 2
        THEN <<"(">> \o last(1) \o <<" ", "&", " ">> \o last(2) \o <<",", " ">> \o y \o <<")">>
        ELSE <<"(">> \o last(1) \o <<" ", "e", "t", " ", "a", "l", ".", ",", " ">> \o y \o <<")">>

intext_narrative(authors, year) ==
    LET y == normalize_year(year)
        last(i) == OrUnknown(_strip(Some(authors.people[i].last)))
    IN  IF authors.is_org
        THEN OrUnknown(_strip(Some(authors.org_name))) \o <<" ", "(">> \o y \o <<")">>
        ELSE IF authors.people = <<>> THEN <<"U", "n", "k", "n", "o", "w", "n", " ", "(">> \o y \o <<")">>
        ELSE IF Len(authors.people) = 1 THEN last(1) \o <<" ", "(">> \o y \o <<")">>
        ELSE IF Len(authors.people) = 2
        THEN last(1) \o <<" ", "a", "n", "d", " ">> \o last(2) \o <<" ", "(">> \o y \o <<")">>
        ELSE last(1) \o <<" ", "e", "t", " ", "a", "l", ".", " ", "(">> \o y \o <<")">>

\* reference_key_guess(ref): (first author's last name or the organization's
\* first word, year)
reference_key_guess(ref) ==
    LET authors == ref.authors
        year == normalize_year(ref.year)
        token == IF authors.is_org
                 THEN FirstWord(OrUnknown(_strip(Some(authors.org_name))))
                 ELSE IF authors.people # <<>>
                 THEN OrUnknown(_strip(Some(authors.people[1].last)))
                 ELSE S_Unknown
    IN  <<token, year>>

\* sentence_case(title)
sentence_case(title) ==
    LET t == _strip(Some(title))
    IN  IF t = <<>> THEN t ELSE upper(SubSeq(t, 1, 1)) \o lower(SubSeq(t, 2, Len(t)))

\* title_case_keep(title)
title_case_keep(title) == _strip(Some(title))

\* The fields of a reference that ref.get() reads; a missing field reads as "".
EmptyRef ==
    [type |-> "", authors |-> PersonAuthors(<<>>), year |-> NoneVal, title |-> <<>>,
     auto_sentence_case |-> TRUE, doi |-> <<>>, url |-> <<>>, journal |-> <<>>,
     volume |-> <<>>, issue |-> <<>>, pages |-> <<>>, publisher |-> <<>>,
     edition |-> <<>>, book_title |-> <<>>, editors |-> <<>>, site_name |-> <<>>,
     use_retrieval_date |-> FALSE, retrieval_date |-> <<>>, report_number |-> <<>>,
     conference_name |-> <<>>, conference_location |-> <<>>, university |-> <<>>,
     thesis_type |-> <<>>]

\* tail = f" {a}" if a else (f" {b}" if b else "")
TailOf(a, b) == IF a # <<>> THEN <<" ">> \o a ELSE IF b # <<>> THEN <<" ">> \o b ELSE <<>>

apa_reference_string(ref) ==
    LET rtype == ref.type
        year == normalize_year(ref.year)
        t0 == _strip(Some(ref.title))
        title == IF ref.auto_sentence_case THEN sentence_case(t0) ELSE t0
        doi == _strip(Some(ref.doi))
        url == _strip(Some(ref.url))
        author_str == format_author_list_apa(ref.authors)
        head == author_str \o <<" ", "(">> \o year \o <<")", ".", " ">> \o title
        base == head \o <<".">>
        pages == _strip(Some(ref.pages))
        publisher == _strip(Some(ref.publisher))
        finish(s) == strip(replace_dots(s))
    IN  CASE rtype = "Journal article" ->
               LET journal == title_case_keep(ref.journal)
                   volume == _strip(Some(ref.volume))
                   issue == _strip(Some(ref.issue))
                   issue_part == IF issue # <<>> THEN <<"(">> \o issue \o <<")">> ELSE <<>>
                   jpart == <<" ">> \o journal \o <<",", " ">> \o volume \o issue_part \o <<",", " ">> \o pages \o <<".">>
               IN  finish(base \o jpart \o TailOf(doi, url))
          [] rtype = "Book" ->
               LET edition == _strip(Some(ref.edition))
                   ed_part == IF edition # <<>> THEN <<" ", "(">> \o edition \o <<" ", "e", "d", ".", ")", ".">> ELSE <<>>
               IN  finish(head \o <<".">> \o ed_part \o <<" ">> \o publisher \o <<".">> \o TailOf(doi, url))
          [] rtype = "Book chapter" ->
               LET book_title == title_case_keep(ref.book_title)
                   editors_str == format_author_list_apa(PersonAuthors(ref.editors))
                   ed_label == IF Len(ref.editors) = 1 THEN <<"(", "E", "d", ".", ")">>
                               ELSE IF Len(ref.editors) > 1 THEN <<"(", "E", "d", "s", ".", ")">> ELSE <<>>
                   in0 == <<"I", "n", " ">> \o editors_str \o <<" ">> \o ed_label \o <<",", " ">> \o book_title
                   in1 == IF pages # <<>> THEN in0 \o <<" ", "(", "p", "p", ".", " ">> \o pages \o <<")">> ELSE in0
                   in_part == in1 \o <<".", " ">> \o publisher \o <<".">>
               IN  finish(head \o <<".", " ">> \o in_part \o TailOf(doi, url))
          [] rtype = "Website" ->
               LET site == _strip(Some(ref.site_name))
                   retrieval_date == _strip(Some(ref.retrieval_date))
                   ret_part == IF ref.use_retrieval_date /\ retrieval_date # <<>>
                               THEN <<" ", "R", "e", "t", "r", "i", "e", "v", "e", "d", " ">> \o retrieval_date \o <<",">> ELSE <<>>
               IN  finish(head \o <<".", " ">> \o site \o <<".">> \o ret_part \o TailOf(url, doi))
          [] rtype = "Report / Government document" ->
               LET report_no == _strip(Some(ref.report_number))
                   rep_part == IF report_no # <<>>
                               THEN <<" ", "(", "R", "e", "p", "o", "r", "t", " ", "N", "o", ".", " ">> \o report_no \o <<")", ".">> ELSE <<>>
               IN  finish(head \o <<".">> \o rep_part \o <<" ">> \o publisher \o <<".">> \o TailOf(url, doi))
          [] rtype = "Conference paper" ->
               LET conf == _strip(Some(ref.conference_name))
                   loc == _strip(Some(ref.conference_location))
                   loc_part == IF loc # <<>> THEN <<",", " ">> \o loc ELSE <<>>
               IN  finish(head \o <<".", " ">> \o conf \o loc_part \o <<".">> \o TailOf(url, doi))
          [] rtype = "Thesis / Dissertation" ->
               LET uni == _strip(Some(ref.university))
                   t1 == _strip(Some(ref.thesis_type))
                   ttype == IF t1 = <<>> THEN <<"D", "i", "s", "s", "e", "r", "t", "a", "t", "i", "o", "n">> ELSE t1
               IN  finish(head \o <<" ", "[">> \o ttype \o <<",", " ">> \o uni \o <<"]", ".">> \o TailOf(url, <<>>))
          [] OTHER -> finish(base \o TailOf(doi, url))

(***************************************************************************)
(* The document helpers                                                    *)
(***************************************************************************)

S_References == <<"R", "e", "f", "e", "r", "e", "n", "c", "e", "s">>

\* the text of the paragraph doc.add_page_break() appends: a run that holds
\* only a page break, which python-docx 1.x reads as "" (0.8 reads it as "\n";
\* the scan and the heading search take both for whitespace)
PageBreakText == <<>>

\* a rebuild that keeps the paragraphs that followed the heading
RebuildMutantKeepTail(doc, formatted_refs) ==
    LET idx == find_references_heading_idx(doc)
    IN  IF idx # None
        THEN SubSeq(doc, 1, idx[1]) \o <<S_References>> \o SubSeq(doc, idx[1] + 2, Len(doc))
                 \o formatted_refs
        ELSE doc \o <<PageBreakText, S_References>> \o formatted_refs

\* a rebuild that writes the section into an empty document
RebuildMutantFromScratch(doc, formatted_refs) == <<S_References>> \o formatted_refs

\* rebuild_references_section(doc, formatted_refs): the paragraphs of doc after it
rebuild_references_section(doc, formatted_refs) ==
    LET idx == find_references_heading_idx(doc)
    IN  IF idx # None
        THEN SubSeq(doc, 1, idx[1]) \o <<S_References>> \o formatted_refs
        ELSE doc \o <<PageBreakText, S_References>> \o formatted_refs

\* refs.sort(key=lambda r: (first_author_key(r.get("authors")), normalize_year(r.get("year")))):
\* a stable sort
SortKey(r) == <<first_author_key(r.authors), normalize_year(r.year)>>

RECURSIVE SortRefs(_)
SortRefs(rs) ==
    IF rs = <<>> THEN <<>>
    ELSE The({LET x == rs[Len(rs)]
                  \* x goes after every element that does not follow it in the order
                  k == Cardinality({i \in 1..Len(done) : ~KeyLess(SortKey(x), SortKey(done[i]))})
              IN  SubSeq(done, 1, k) \o <<x>> \o SubSeq(done, k + 1, Len(done)) :
                 done \in {SortRefs(SubSeq(rs, 1, Len(rs) - 1))}})

\* The orders in which a for loop may go through a set
RECURSIVE Orderings(_)
Orderings(S) ==
    IF S = {} THEN {<<>>}
    ELSE UNION {{<<x>> \o t : t \in Orderings(S \ {x})} : x \in S}

\* [x for x in order if Test(x)]
RECURSIVE Filter(_, _)
Filter(order, keep) ==
    IF order = <<>> THEN <<>>
    ELSE (IF order[1] \in keep THEN <<order[1]>> ELSE <<>>) \o Filter(Tail(order), keep)

\* (a.split()[0], y) of a citation (a, y)
CitedKey(c) == <<FirstWord(c[1]), c[2]>>

\* the sets the two loops of the report block go through
CitedOf(doc) == LET found == scan_docx_for_citations(doc) IN found.paren \cup found.narr
RefKeysOf(rs) == {reference_key_guess(rs[i]) : i \in 1..Len(rs)}

\* a report block that appends (a_token, y) where the code appends (a, y)
ReportOfMutantKeys(cited, ref_keys, cited_order, ref_order) ==
    LET missing == Filter(cited_order, {c \in cited : CitedKey(c) \notin ref_keys})
        never == Filter(ref_order, {rk \in ref_keys : rk \notin {CitedKey(c) : c \in cited}})
    IN  [missing_in_references |-> sorted({CitedKey(c) : c \in Range(missing)}),
         never_cited |-> sorted(Range(never))]

\* a report block that shows its lists as the loops made them
ReportOfMutantUnsorted(cited, ref_keys, cited_order, ref_order) ==
    LET missing == Filter(cited_order, {c \in cited : CitedKey(c) \notin ref_keys})
        never == Filter(ref_order, {rk \in ref_keys : rk \notin {CitedKey(c) : c \in cited}})
    IN  [missing_in_references |-> missing, never_cited |-> never]

\* The report block of tab 3, lines 780-799, on the rebuilt document: the two
\* loops go through their sets in the orders given.
ReportOf(cited, ref_keys, cited_order, ref_order) ==
    LET missing == Filter(cited_order, {c \in cited : CitedKey(c) \notin ref_keys})
        never == Filter(ref_order, {rk \in ref_keys : rk \notin {CitedKey(c) : c \in cited}})
    IN  [missing_in_references |-> sorted(Range(missing)),
         never_cited |-> sorted(Range(never))]

\* the reports the block may make of a document and the references
ReportLists(doc, rs) ==
    UNION {{ReportOf(cited, ref_keys, cited_order, ref_order) :
                cited_order \in Orderings(cited), ref_order \in Orderings(ref_keys)} :
            cited \in {CitedOf(doc)}, ref_keys \in {RefKeysOf(rs)}}

(***************************************************************************)
(* One run of the script                                                   *)
(*                                                                         *)
(* Streamlit runs the script from top to bottom on every interaction; one  *)
(* button at most is pressed in a run. ss is st.session_state, ev the      *)
(* button pressed ("" if none).                                            *)
(***************************************************************************)

\* init_state(): the session state of a new session
init_state == [refs |-> <<>>, edit_idx |-> None, uploaded_bytes |-> None, scan_results |-> None]

\* the sidebar's "New project" button
NewProjectBlock(ss, ev) ==
    IF ev = "new_project"
    THEN [ss EXCEPT !.refs = <<>>, !.edit_idx = None, !.uploaded_bytes = None, !.scan_results = None]
    ELSE ss

\* the sidebar's import: a file is an optional JSON value, a list of references or not
ImportBlock(ss, file) ==
    IF file # None /\ file[1].is_list THEN [ss EXCEPT !.refs = file[1].data] ELSE ss

\* a handler that stores no citation when it finds no heading
ScanHandlerMutantNeedsHeading(ss) ==
    IF ss.uploaded_bytes = None THEN ss
    ELSE The({[ss EXCEPT !.scan_results =
                    Some([references_heading_found |-> find_references_heading_idx(doc) # None,
                          paren_citations |-> IF find_references_heading_idx(doc) # None
                                              THEN sorted(found.paren) ELSE <<>>,
                          narr_citations |-> IF find_references_heading_idx(doc) # None
                                             THEN sorted(found.narr) ELSE <<>>])] :
                 found \in {scan_docx_for_citations(ss.uploaded_bytes[1])},
                 doc \in {ss.uploaded_bytes[1]}})

\* the "Scan document" handler
ScanHandler(ss) ==
    IF ss.uploaded_bytes = None THEN ss
    ELSE The({[ss EXCEPT !.scan_results =
                    Some([references_heading_found |-> find_references_heading_idx(doc) # None,
                          paren_citations |-> sorted(found.paren),
                          narr_citations |-> sorted(found.narr)])] :
                 found \in {scan_docx_for_citations(ss.uploaded_bytes[1])},
                 doc \in {ss.uploaded_bytes[1]}})

\* tab 1: the uploader, "Scan document" and "Clear upload"
Tab1Block(ss, file, ev) ==
    LET s1 == IF file # None
              THEN [ss EXCEPT !.uploaded_bytes = file, !.scan_results = None]
              ELSE ss
        s2 == IF ev = "scan" THEN ScanHandler(s1) ELSE s1
    IN  IF ev = "clear"
        THEN [s2 EXCEPT !.uploaded_bytes = None, !.scan_results = None]
        ELSE s2

\* the session state at the end of a run in which no button of tab 2 is pressed
ScriptRun(ss, docx, json, ev) ==
    Tab1Block(ImportBlock(NewProjectBlock(ss, ev), json), docx, ev)

\* edit_idx is None, "NEW" or an index of refs counted from 0
S_NEW == <<"N", "E", "W">>
IsNew(e) == e # None /\ e[1].t = "str"
IsIndex(e) == e # None /\ e[1].t = "int"

\* refs.index(ref) + 1 for the reference at position i of rs, positions counted
\* from 1: the first position that holds an equal reference
IndexOf(rs, i) == CHOOSE k \in 1..i : rs[k] = rs[i] /\ \A j \in 1..(k - 1) : rs[j] # rs[i]

\* the position at which tab 2's list stops, with the search empty and the
\* filter "All": the buttons of a reference that equals an earlier one get
\* the keys f"edit_{real_idx}", f"dup_{real_idx}", f"del_{real_idx}" of that
\* one, and Streamlit raises on a key used twice in a run. Len(rs) + 1 when
\* the list is drawn to its end.
FirstRepeated(rs) == Least({i \in 1..Len(rs) : IndexOf(rs, i) < i} \cup {Len(rs) + 1})
ListRaises(rs) == FirstRepeated(rs) <= Len(rs)

\* st.session_state.refs[mode] raises IndexError
EditorRaises(ss) == IsIndex(ss.edit_idx) /\ ss.edit_idx[1].n >= Len(ss.refs)

\* list.insert(k, r) and list.pop(k), k counted from 0 and within the list
InsertAt(rs, k, r) == SubSeq(rs, 1, k) \o <<r>> \o SubSeq(rs, k + 1, Len(rs))
PopAt(rs, k) == SubSeq(rs, 1, k) \o SubSeq(rs, k + 2, Len(rs))

\* what the user does in tab 2 in a run: nothing, a button of the list with
\* its real_idx, "Add reference", or one of the editor's two submit buttons
\* with the reference the form holds
NoEvent == [kind |-> "", idx |-> 0, ref_obj |-> EmptyRef, add_another |-> FALSE]
ListEvent(kind, k) == [NoEvent EXCEPT !.kind = kind, !.idx = k]
SaveEvent(r, b) == [NoEvent EXCEPT !.kind = "save", !.ref_obj = r, !.add_another = b]

\* tab 2's left column: the session state after it, whether it ended the run
\* with st.rerun(), and whether it ended the run with an exception
Tab2Left(ss, ev) ==
    IF ev.kind = "dup" /\ ev.idx + 1 < FirstRepeated(ss.refs)
    THEN [ss |-> [ss EXCEPT !.refs = InsertAt(@, ev.idx + 1, @[ev.idx + 1])],
          rerun |-> TRUE, raised |-> FALSE]
    ELSE IF ev.kind = "del" /\ ev.idx + 1 < FirstRepeated(ss.refs)
    THEN [ss |-> [ss EXCEPT !.refs = PopAt(@, ev.idx), !.edit_idx = None],
          rerun |-> TRUE, raised |-> FALSE]
    ELSE LET s1 == IF ev.kind = "edit" /\ ev.idx + 1 < FirstRepeated(ss.refs)
                   THEN [ss EXCEPT !.edit_idx = Some(IntVal(ev.idx))]
                   ELSE ss
         IN  IF ListRaises(ss.refs)
             THEN [ss |-> s1, rerun |-> FALSE, raised |-> TRUE]
             ELSE [ss |-> IF ev.kind = "add"
                          THEN [s1 EXCEPT !.edit_idx = Some(StrVal(S_NEW))]
                          ELSE s1,
                   rerun |-> FALSE, raised |-> FALSE]

\* tab 2's right column: the editor pane
Tab2Right(ss, ev) ==
    IF ss.edit_idx = None THEN [ss |-> ss, rerun |-> FALSE, raised |-> FALSE]
    ELSE IF EditorRaises(ss) THEN [ss |-> ss, rerun |-> FALSE, raised |-> TRUE]
    ELSE IF ev.kind = "save"
    THEN [ss |-> [ss EXCEPT !.refs = IF IsNew(ss.edit_idx)
                                     THEN Append(@, ev.ref_obj)
                                     ELSE [@ EXCEPT ![ss.edit_idx[1].n + 1] = ev.ref_obj],
                            !.edit_idx = IF ev.add_another THEN Some(StrVal(S_NEW)) ELSE None],
          rerun |-> TRUE, raised |-> FALSE]
    ELSE [ss |-> ss, rerun |-> FALSE, raised |-> FALSE]

Tab2Block(ss, ev) ==
    The({IF l.rerun \/ l.raised THEN l ELSE Tab2Right(l.ss, ev) : l \in {Tab2Left(ss, ev)}})

\* the session state at the end of a run in which the user acts in tab 2,
\* and of the run st.rerun() starts after it; tab 3 writes no session state
ScriptRunTab2(ss, docx, json, ev) ==
    The({IF t.rerun THEN ScriptRun(t.ss, docx, json, "") ELSE t.ss :
             t \in {Tab2Block(ScriptRun(ss, docx, json, ""), ev)}})

\* the references tab 3 formats, and the document it builds of them. Margins,
\* font, spacing and page numbers change no paragraph's text.
BuiltRefs(ss, o) == IF o.opt_alpha THEN SortRefs(ss.refs) ELSE ss.refs
BuiltDoc(doc, rs, o) ==
    IF o.opt_refs
    THEN rebuild_references_section(doc, [i \in 1..Len(rs) |-> apa_reference_string(rs[i])])
    ELSE doc

\* tab 3's "Build formatted DOCX" handler: what it may show, the document built
\* and the report; None for the error that nothing is uploaded
BuildHandler(ss, o) ==
    IF ss.uploaded_bytes = None THEN {None}
    ELSE UNION {{Some([doc |-> built,
                       shown |-> o.run_checks /\ o.opt_refs,
                       missing_in_references |-> lists.missing_in_references,
                       never_cited |-> lists.never_cited]) :
                    lists \in IF o.opt_refs /\ o.run_checks
                              THEN ReportLists(built, BuiltRefs(ss, o))
                              ELSE {[missing_in_references |-> <<>>, never_cited |-> <<>>]}} :
                 built \in {BuiltDoc(ss.uploaded_bytes[1], BuiltRefs(ss, o), o)}}

(***************************************************************************)
(* The reference-list segmenter and the entry key extractor, as spec.md    *)
(* 4.1, 4.3 and 4.4 describe them                                          *)
(***************************************************************************)

\* the characters in which a parenthesized year is looked for
EntryHeadLen == 80

\* a blank paragraph: all-whitespace text
Blank(text) == strip(text) = <<>>

\* a parenthesized four-digit-or-n.d. year at index i
ParenYearAt(s, i) == i + 5 <= Len(s) /\ s[i] = "(" /\ YearAt(s, i + 1) /\ s[i + 5] = ")"

\* the capitalized word s begins with, if a comma and a space follow it
LeadingSurname(s) ==
    IF s # <<>> /\ s[1] \in Uppers /\ MatchesAt(s, SkipClass(s, 2, NarrClass), <<",", " ">>)
    THEN Some(SubSeq(s, 1, SkipClass(s, 2, NarrClass) - 1))
    ELSE None

\* the two heuristics by which a paragraph starts a new entry
StartsEntry(text) ==
    \/ LeadingSurname(text) # None
    \/ /\ text # <<>>
       /\ text[1] \in Uppers
       /\ \E i \in 1..(EntryHeadLen - 5) : ParenYearAt(text, i)

\* a segmenter that flushes the entry at every paragraph
RECURSIVE SegmentMutantNoMerge(_, _, _)
SegmentMutantNoMerge(paras, i, acc) ==
    IF i > Len(paras) THEN <<>>
    ELSE IF Blank(paras[i]) THEN SegmentMutantNoMerge(paras, i + 1, acc)
    ELSE <<paras[i]>> \o SegmentMutantNoMerge(paras, i + 1, acc)

\* the entries of the paragraphs i.. of paras, acc the entry being
\* accumulated (None if there is none)
RECURSIVE SegmentFrom(_, _, _)
SegmentFrom(paras, i, acc) ==
    IF i > Len(paras) THEN (IF acc = None THEN <<>> ELSE <<acc[1]>>)
    ELSE IF Blank(paras[i]) THEN SegmentFrom(paras, i + 1, acc)
    ELSE IF StartsEntry(paras[i])
    THEN (IF acc = None THEN <<>> ELSE <<acc[1]>>) \o SegmentFrom(paras, i + 1, Some(paras[i]))
    ELSE SegmentFrom(paras, i + 1,
                     Some(IF acc = None THEN paras[i] ELSE acc[1] \o <<" ">> \o paras[i]))

\* the entries of the paragraphs that follow the heading
segmentEntries(paras) == SegmentFrom(paras, 1, None)

\* normalizeYear(raw)
normalizeYear(raw) ==
    IF lower(strip(raw)) = S_nd THEN S_nd
    ELSE IF IsFourDigits(lower(strip(raw))) THEN lower(strip(raw))
    ELSE S_nd

\* normalizeAuthorToken(raw)
IsAuthorChar(c) == c \in Letters \cup {"'", "-", " "}
normalizeAuthorToken(raw) ==
    IF strip(SelectSeq(strip(raw), IsAuthorChar)) = <<>> THEN S_unknown
    ELSE lower(FirstWord(strip(SelectSeq(strip(raw), IsAuthorChar))))

\* the key of an entry text
entryKey(entry) ==
    LET years == {i \in 1..Len(entry) : ParenYearAt(entry, i)}
        parens == {i \in 1..Len(entry) : entry[i] = "("}
        year == IF years = {} THEN S_nd
                ELSE normalizeYear(SubSeq(entry, Least(years) + 1, Least(years) + 4))
        author == IF LeadingSurname(entry) # None THEN LeadingSurname(entry)[1]
                  ELSE IF parens = {} THEN entry
                  ELSE SubSeq(entry, 1, Least(parens) - 1)
    IN  <<normalizeAuthorToken(author), year>>

(***************************************************************************)
(* Inputs                                                                  *)
(***************************************************************************)

MaxParas == 2      \* paragraphs of an uploaded document
MaxHeadingParas == 3  \* paragraphs of a document whose heading is looked for
MaxRefs == 2       \* references of a library
MaxAuthors == 3    \* authors of a saved reference
MaxYearLen == 5    \* characters of a year typed as text
MaxSmallInt == 20  \* magnitude of the small integer years
MaxBuilds == 2     \* consecutive builds that are counted
MaxTail == 3       \* paragraphs that follow the heading
MaxLibrary == 3    \* references the editor and "Duplicate" grow the library to

\* the sequences of at most n elements of S
SeqsUpTo(S, n) == UNION {[1..k -> S] : k \in 0..n}

S_Smith == <<"S", "m", "i", "t", "h">>
S_Jones == <<"J", "o", "n", "e", "s">>
S_Lee == <<"L", "e", "e">>
S_2020 == <<"2", "0", "2", "0">>
Surnames == {S_Smith, S_Jones, S_Lee}

\* the parenthetical citations of several authors, as APA writes them
CiteAmp(a, b, y) == <<"(">> \o a \o <<" ", "&", " ">> \o b \o <<",", " ">> \o y \o <<")">>
CiteAnd(a, b, y) == <<"(">> \o a \o <<" ", "a", "n", "d", " ">> \o b \o <<",", " ">> \o y \o <<")">>
CiteEtAl(a, y) == <<"(">> \o a \o <<" ", "e", "t", " ", "a", "l", ".", ",", " ">> \o y \o <<")">>

\* the paragraphs of the scanned documents
ScanParas ==
    { S_References,
      <<"S", "e", "e", " ", "(", "S", "m", "i", "t", "h", ",", " ", "2", "0", "2", "0", ")", ".">>,
      <<"S", "h", "o", "w", "n", " ", "(", "s", "m", "i", "t", "h", ",", " ", "n", ".", "d", ".", ")">>,
      CiteAmp(S_Smith, S_Jones, S_2020),
      CiteAnd(S_Smith, S_Jones, S_2020),
      CiteEtAl(S_Smith, S_nd),
      <<"J", "o", "n", "e", "s", " ", "(", "n", ".", "d", ".", ")", " ", "a", "g", "r", "e", "e", "s">>,
      <<"a", "s", " ", "a", "r", "g", "u", "e", "d", " ", "b", "y", " ", "L", "e", "e">>,
      <<"(", "2", "0", "1", "9", ")", " ", "a", "n", "d", " ", "o", "t", "h", "e", "r", "s">> }
ScanDocs == SeqsUpTo(ScanParas, MaxParas)

\* the paragraphs of the documents that are built
BuildParas ==
    { <<"R", "e", "f", "e", "r", "e", "n", "c", "e", "s">>,
      <<"S", "e", "e", " ", "(", "S", "m", "i", "t", "h", " ", "a", "n", "d", " ", "J", "o", "n", "e", "s", ",", " ", "2", "0", "2", "0", ")", ".">>,
      <<"L", "e", "e", " ", "(", "2", "0", "1", "9", ")", " ", "a", "g", "r", "e", "e", "s", ".">> }
BuildDocs == SeqsUpTo(BuildParas, MaxParas)

\* the references of the libraries
MkRef(type, authors, year, title) ==
    [EmptyRef EXCEPT !.type = type, !.authors = authors, !.year = year, !.title = title]

RefPool ==
    { [MkRef("Book", PersonAuthors(<<Person(S_Smith, <<"J", ".">>), Person(S_Jones, <<"K", ".">>)>>),
             IntVal(2020), <<"o", "n", " ", "k", "e", "y", "s">>) EXCEPT !.publisher = <<"P", "r", "e", "s", "s">>],
      MkRef("Website", OrgAuthor(<<"W", "o", "r", "l", "d", " ", "H", "e", "a", "l", "t", "h", " ", "O", "r", "g", "a", "n", "i", "z", "a", "t", "i", "o", "n">>), IntVal(2019), <<"F", "a", "c", "t", "s">>) }
RefLists == SeqsUpTo(RefPool, MaxRefs)

\* the files of the import uploader: a JSON list of references, or another JSON value
ImportFiles == {[is_list |-> TRUE, data |-> l] : l \in RefLists} \cup {[is_list |-> FALSE, data |-> <<>>]}

\* the years normalize_year is called with
YearChars == {"2", "n", ".", "d", "N", " "}
YearInts == ((0 - MaxSmallInt)..MaxSmallInt) \cup {999, 1000, 2020, 9999, 10000}
YearInputs ==
    {NoneVal} \cup {IntVal(k) : k \in YearInts}
    \cup {StrVal(s) : s \in SeqsUpTo(YearChars, MaxYearLen)}

\* the documents find_references_heading_idx is called with
HeadingParas ==
    { <<"R", "e", "f", "e", "r", "e", "n", "c", "e", "s">>, <<" ", "R", "E", "F", "E", "R", "E", "N", "C", "E", "S", "\n">>, <<"r", "e", "f", "e", "r", "e", "n", "c", "e", "s", ":">>, <<"R", "e", "f", "e", "r", "e", "n", "c", "e">>, <<"I", "n", "t", "r", "o">> }
HeadingDocs == SeqsUpTo(HeadingParas, MaxHeadingParas)

\* the lists rebuild_references_section is called with: the formatted
\* references of a library
FormattedLists == {[i \in 1..Len(l) |-> apa_reference_string(l[i])] : l \in RefLists}

\* the references the editor's form is submitted with
EditorRefs ==
    RefPool \cup {MkRef("Journal article", PersonAuthors(<<Person(S_Lee, <<"D", ".">>)>>),
                        StrVal(S_nd), <<"L", "a", "t", "e">>)}

\* the references saved by the editor: one or more persons, or an organization;
\* the year it stores is an int, "n.d." or None
OrgNames == {<<"U", "n", "i", "c", "e", "f">>, <<"W", "o", "r", "l", "d", " ", "H", "e", "a", "l", "t", "h", " ", "O", "r", "g", "a", "n", "i", "z", "a", "t", "i", "o", "n">>}
SavedAuthors ==
    {PersonAuthors([i \in 1..Len(l) |-> Person(l[i], <<"J", ".">>)]) : l \in SeqsUpTo(Surnames, MaxAuthors) \ {<<>>}}
    \cup {OrgAuthor(n) : n \in OrgNames}
SavedYears == {IntVal(2020), StrVal(S_nd), NoneVal}
SavedRefs == {MkRef("Journal article", a, y, <<"T", "i", "t", "l", "e">>) : a \in SavedAuthors, y \in SavedYears}

\* the paragraphs that follow a "References" heading
TailParas ==
    { <<"B", "r", "o", "w", "n", ",", " ", "A", ".", " ", "(", "2", "0", "2", "0", ")", ".", " ", "A", " ", "v", "e", "r", "y", " ", "l", "o", "n", "g">>,
      <<"t", "i", "t", "l", "e", " ", "t", "h", "a", "t", " ", "c", "o", "n", "t", "i", "n", "u", "e", "s", " ", "h", "e", "r", "e", ".", " ", "P", "u", "b", "l", "i", "s", "h", "e", "r", ".">>,
      <<"B", "r", "o", "w", "n", ",", " ", "A", ".", ",", " ", "S", "m", "i", "t", "h", ",", " ", "B", ".", ",">>,
      <<"&", " ", "L", "e", "e", ",", " ", "D", ".", " ", "(", "2", "0", "1", "9", ")", ".", " ", "L", "a", "t", "e", ".">>,
      <<"W", "H", "O", ".", " ", "(", "2", "0", "1", "9", ")", ".", " ", "F", "a", "c", "t", "s", ".">>,
      <<" ">> }
Tails == SeqsUpTo(TailParas, MaxTail)

(***************************************************************************)
(* The application                                                         *)
(***************************************************************************)

\* st.session_state of the state, and the state of a session state
Session == [refs |-> refs, edit_idx |-> edit_idx, uploaded_bytes |-> uploaded_bytes,
            scan_results |-> scan_results]
Commit(ss) ==
    /\ refs' = ss.refs
    /\ edit_idx' = ss.edit_idx
    /\ uploaded_bytes' = ss.uploaded_bytes
    /\ scan_results' = ss.scan_results

\* a run that builds nothing shows no report
NoReport == report' = None /\ n_builds' = 0

\* a new session: init_state() has run, the uploaders are empty and the
\* checkboxes of tab 3 are ticked
InitSession ==
    /\ refs = init_state.refs
    /\ edit_idx = init_state.edit_idx
    /\ uploaded_bytes = init_state.uploaded_bytes
    /\ scan_results = init_state.scan_results
    /\ up = None
    /\ imp = None
    /\ opts = [opt_refs |-> TRUE, opt_alpha |-> TRUE, run_checks |-> TRUE]
    /\ report = None
    /\ n_builds = 0

Init == InitSession /\ probe = None

\* a file is dropped on the "Upload .docx" uploader
UploadDocx(pool) ==
    \E d \in pool :
        /\ up' = Some(d)
        /\ \E ss \in {ScriptRun(Session, Some(d), imp, "")} : Commit(ss)
        /\ NoReport
        /\ UNCHANGED <<imp, opts, probe>>

\* the file is removed from the uploader
RemoveUpload ==
    /\ up # None
    /\ up' = None
    /\ \E ss \in {ScriptRun(Session, None, imp, "")} : Commit(ss)
    /\ NoReport
    /\ UNCHANGED <<imp, opts, probe>>

\* tab 1's "Scan document" is pressed
ScanDocument ==
    /\ \E ss \in {ScriptRun(Session, up, imp, "scan")} : Commit(ss)
    /\ NoReport
    /\ UNCHANGED <<up, imp, opts, probe>>

\* tab 1's "Clear upload" is pressed
ClearUpload ==
    /\ \E ss \in {ScriptRun(Session, up, imp, "clear")} : Commit(ss)
    /\ NoReport
    /\ UNCHANGED <<up, imp, opts, probe>>

\* the sidebar's "New project" is pressed
NewProject ==
    /\ \E ss \in {ScriptRun(Session, up, imp, "new_project")} : Commit(ss)
    /\ NoReport
    /\ UNCHANGED <<up, imp, opts, probe>>

\* a file is dropped on the "Import references (.json)" uploader
ImportReferences(pool) ==
    \E f \in pool :
        /\ imp' = Some(f)
        /\ \E ss \in {ScriptRun(Session, up, Some(f), "")} : Commit(ss)
        /\ NoReport
        /\ UNCHANGED <<up, opts, probe>>

RemoveImport ==
    /\ imp # None
    /\ imp' = None
    /\ \E ss \in {ScriptRun(Session, up, None, "")} : Commit(ss)
    /\ NoReport
    /\ UNCHANGED <<up, opts, probe>>

\* tab 2's buttons. A button can be pressed when the last run has drawn it:
\* the list's buttons up to the place where the list raises, "Add reference"
\* when the list is drawn to its end, the editor's when the pane is drawn.
EditReference ==
    /\ \E k \in 0..(Len(refs) - 1) :
          /\ k + 1 < FirstRepeated(refs)
          /\ \E ss \in {ScriptRunTab2(Session, up, imp, ListEvent("edit", k))} : Commit(ss)
    /\ NoReport
    /\ UNCHANGED <<up, imp, opts, probe>>

DuplicateReference ==
    /\ Len(refs) < MaxLibrary
    /\ \E k \in 0..(Len(refs) - 1) :
          /\ k + 1 < FirstRepeated(refs)
          /\ \E ss \in {ScriptRunTab2(Session, up, imp, ListEvent("dup", k))} : Commit(ss)
    /\ NoReport
    /\ UNCHANGED <<up, imp, opts, probe>>

DeleteReference ==
    /\ \E k \in 0..(Len(refs) - 1) :
          /\ k + 1 < FirstRepeated(refs)
          /\ \E ss \in {ScriptRunTab2(Session, up, imp, ListEvent("del", k))} : Commit(ss)
    /\ NoReport
    /\ UNCHANGED <<up, imp, opts, probe>>

AddReference ==
    /\ ~ListRaises(refs)
    /\ \E ss \in {ScriptRunTab2(Session, up, imp, ListEvent("add", 0))} : Commit(ss)
    /\ NoReport
    /\ UNCHANGED <<up, imp, opts, probe>>

\* the editor pane is drawn, and the library has room for what it appends
EditorDrawn ==
    /\ ~ListRaises(refs)
    /\ edit_idx # None
    /\ ~EditorRaises(Session)
    /\ IsNew(edit_idx) => Len(refs) < MaxLibrary

SaveReference ==
    /\ EditorDrawn
    /\ \E r \in EditorRefs :
          \E ss \in {ScriptRunTab2(Session, up, imp, SaveEvent(r, FALSE))} : Commit(ss)
    /\ NoReport
    /\ UNCHANGED <<up, imp, opts, probe>>

SaveAndAddAnother ==
    /\ EditorDrawn
    /\ \E r \in EditorRefs :
          \E ss \in {ScriptRunTab2(Session, up, imp, SaveEvent(r, TRUE))} : Commit(ss)
    /\ NoReport
    /\ UNCHANGED <<up, imp, opts, probe>>

\* a checkbox of tab 3 is ticked or unticked
ToggleOption ==
    \E k \in {"opt_refs", "opt_alpha", "run_checks"} :
        /\ opts' = [opts EXCEPT ![k] = ~@]
        /\ \E ss \in {ScriptRun(Session, up, imp, "")} : Commit(ss)
        /\ NoReport
        /\ UNCHANGED <<up, imp, probe>>

\* "Build formatted DOCX" is pressed
BuildFormattedDocx ==
    /\ n_builds < MaxBuilds
    /\ \E ss \in {ScriptRun(Session, up, imp, "build")} :
          /\ Commit(ss)
          /\ report' \in BuildHandler(ss, opts)
          /\ n_builds' = IF ss.uploaded_bytes = None THEN 0 ELSE n_builds + 1
    /\ UNCHANGED <<up, imp, opts, probe>>

(***************************************************************************)
(* Calls of the helper functions                                           *)
(*                                                                         *)
(* probe holds one call of a helper: the function, its argument and, once  *)
(* the call has returned, its result.                                      *)
(***************************************************************************)

Calls(fn, args) == {Some([fn |-> fn, arg |-> a, returned |-> FALSE, out |-> None]) : a \in args}
Called(fn) == probe # None /\ probe[1].fn = fn /\ ~probe[1].returned
Returned(fn) == probe # None /\ probe[1].fn = fn /\ probe[1].returned
Return(out) == probe' = Some([probe[1] EXCEPT !.returned = TRUE, !.out = out])

CallNormalizeYear ==
    /\ Called("normalize_year")
    /\ Return(normalize_year(probe[1].arg))
    /\ UNCHANGED <<refs, edit_idx, uploaded_bytes, scan_results, up, imp, opts, report, n_builds>>

CallFindHeading ==
    /\ Called("find_references_heading_idx")
    /\ Return(find_references_heading_idx(probe[1].arg))
    /\ UNCHANGED <<refs, edit_idx, uploaded_bytes, scan_results, up, imp, opts, report, n_builds>>

CallRebuild ==
    /\ Called("rebuild_references_section")
    /\ Return(rebuild_references_section(probe[1].arg.doc, probe[1].arg.formatted_refs))
    /\ UNCHANGED <<refs, edit_idx, uploaded_bytes, scan_results, up, imp, opts, report, n_builds>>

CallSegment ==
    /\ Called("segment")
    /\ Return(segmentEntries(probe[1].arg))
    /\ UNCHANGED <<refs, edit_idx, uploaded_bytes, scan_results, up, imp, opts, report, n_builds>>

\* the citation the editor previews for a reference in one of its two forms,
\* scanned as a document's only paragraph, beside the reference's key
CallCite ==
    /\ Called("intext")
    /\ \E text \in {IF probe[1].arg.form = "parenthetical"
                     THEN intext_parenthetical(probe[1].arg.ref.authors, probe[1].arg.ref.year)
                     ELSE intext_narrative(probe[1].arg.ref.authors, probe[1].arg.ref.year)} :
          Return([text |-> text, cited |-> CitedOf(<<text>>),
                  key |-> reference_key_guess(probe[1].arg.ref)])
    /\ UNCHANGED <<refs, edit_idx, uploaded_bytes, scan_results, up, imp, opts, report, n_builds>>

(***************************************************************************)
(* Specifications                                                          *)
(***************************************************************************)

\* the session with a document uploaded and a library of references
InitBuild ==
    /\ \E d \in BuildDocs : up = Some(d) /\ uploaded_bytes = Some(d)
    /\ refs \in RefLists
    /\ edit_idx = None
    /\ scan_results = None
    /\ imp = None
    /\ opts = [opt_refs |-> TRUE, opt_alpha |-> TRUE, run_checks |-> TRUE]
    /\ report = None
    /\ n_builds = 0
    /\ probe = None

\* a new session in which one helper is called
InitFn ==
    /\ InitSession
    /\ probe \in Calls("normalize_year", YearInputs)
                 \cup Calls("find_references_heading_idx", HeadingDocs)
                 \cup Calls("rebuild_references_section",
                            {[doc |-> d, formatted_refs |-> f] : d \in HeadingDocs, f \in FormattedLists})
                 \cup Calls("segment", Tails)
                 \cup Calls("intext", {[ref |-> r, form |-> f] :
                                          r \in SavedRefs, f \in {"parenthetical", "narrative"}})

NextScan ==
    \/ UploadDocx(ScanDocs)
    \/ RemoveUpload
    \/ ScanDocument
    \/ ClearUpload
    \/ NewProject

NextBuild ==
    \/ ToggleOption
    \/ BuildFormattedDocx

NextFn ==
    \/ CallNormalizeYear
    \/ CallFindHeading
    \/ CallRebuild
    \/ CallSegment
    \/ CallCite

NextRefs ==
    \/ AddReference
    \/ EditReference
    \/ DuplicateReference
    \/ DeleteReference
    \/ SaveReference
    \/ SaveAndAddAnother
    \/ NewProject
    \/ ImportReferences(ImportFiles)
    \/ RemoveImport

Next ==
    \/ UploadDocx(BuildDocs)
    \/ RemoveUpload
    \/ ScanDocument
    \/ ClearUpload
    \/ NewProject
    \/ ImportReferences(ImportFiles)
    \/ RemoveImport
    \/ ToggleOption
    \/ BuildFormattedDocx

Spec == Init /\ [][Next]_vars
SpecScan == Init /\ [][NextScan]_vars
SpecBuild == InitBuild /\ [][NextBuild]_vars
SpecFn == InitFn /\ [][NextFn]_vars
SpecRefs == Init /\ [][NextRefs]_vars

(***************************************************************************)
(* Properties of the helper functions                                      *)
(***************************************************************************)

\* t occurs in s
Occurs(t, s) == \E i \in 1..(Len(s) + 1) : MatchesAt(s, i, t)

\* the paragraphs of doc whose trimmed, lowercased text is "references"
Headings(doc) == {i \in 1..Len(doc) : lower(strip(doc[i])) = <<"r", "e", "f", "e", "r", "e", "n", "c", "e", "s">>}

\* C2: find_references_heading_idx returns the index of the first paragraph
\* whose trimmed, lowercased text is "references", and None exactly when no
\* paragraph has that text.
C2_BoundaryIsFirstHeading ==
    Returned("find_references_heading_idx") =>
        /\ probe[1].out = None <=> Headings(probe[1].arg) = {}
        /\ Headings(probe[1].arg) # {} =>
              probe[1].out = Some(Least(Headings(probe[1].arg)) - 1)

\* a document with two headings, the first of them not its first paragraph
C2_Witness ==
    /\ Returned("find_references_heading_idx")
    /\ Cardinality(Headings(probe[1].arg)) >= 2
    /\ probe[1].out = Some(1)

\* C4, as claimed: a string of exactly four digits is returned as it is, and
\* every other string that is not "n.d." gives "n.d.".
C4_OtherStringsUndated ==
    (Returned("normalize_year") /\ probe[1].arg.t = "str") =>
        /\ IsFourDigits(probe[1].arg.s) => probe[1].out = probe[1].arg.s
        /\ (~IsFourDigits(probe[1].arg.s) /\ probe[1].arg.s # S_nd) => probe[1].out = S_nd

\* C4, amended: a string whose text without the surrounding whitespace is
\* exactly four digits gives that trimmed text, and every other string "n.d.".
C4_TrimmedFourDigits ==
    (Returned("normalize_year") /\ probe[1].arg.t = "str") =>
        probe[1].out = IF IsFourDigits(strip(probe[1].arg.s)) THEN strip(probe[1].arg.s) ELSE S_nd

\* four digits after a space
C4_Witness ==
    /\ Returned("normalize_year")
    /\ probe[1].arg.t = "str"
    /\ probe[1].arg.s = <<" ", "2", "2", "2", "2">>
    /\ probe[1].out = <<"2", "2", "2", "2">>

\* C5: whatever it is given (None, a string, an integer), normalize_year
\* returns four digits or "n.d.".
C5_YearTokenShape ==
    Returned("normalize_year") => (IsFourDigits(probe[1].out) \/ probe[1].out = S_nd)

\* C6: the citation made of a saved reference, scanned, holds a mention whose
\* (first author token, year) is reference_key_guess of the reference.
C6_KeyMatchesScan ==
    Returned("intext") => \E c \in probe[1].out.cited : CitedKey(c) = probe[1].out.key

(***************************************************************************)
(* Properties of the scan                                                  *)
(***************************************************************************)

\* "Scan document" has been pressed on the uploaded document
Scanned == scan_results # None /\ uploaded_bytes # None

\* the mentions a scan has found
Mentions(res) == Range(res.paren_citations) \cup Range(res.narr_citations)

\* C3: scanning a document of which no paragraph is "references" leaves a
\* result that says the heading was not found and holds the citations of the
\* whole text, the paragraphs joined by newlines.
C3_ScanWithoutHeading ==
    (Scanned /\ Headings(uploaded_bytes[1]) = {}) =>
        /\ scan_results[1].references_heading_found = FALSE
        /\ Range(scan_results[1].paren_citations) = ParenFinditer(join(<<"\n">>, uploaded_bytes[1]), 1)
        /\ Range(scan_results[1].narr_citations) = NarrFinditer(join(<<"\n">>, uploaded_bytes[1]), 1)

\* two paragraphs, none a heading, the second one holding the citation found
C3_Witness ==
    /\ Scanned
    /\ uploaded_bytes[1] = <<<<"a", "s", " ", "a", "r", "g", "u", "e", "d", " ", "b", "y", " ", "L", "e", "e">>, <<"S", "e", "e", " ", "(", "S", "m", "i", "t", "h", ",", " ", "2", "0", "2", "0", ")", ".">>>>
    /\ scan_results[1].references_heading_found = FALSE
    /\ scan_results[1].paren_citations = <<<<S_Smith, S_2020>>>>

\* C7: a parenthetical citation "(A & B, year)", "(A and B, year)" or
\* "(A et al., year)" in the document gives a mention whose author token is A.
C7_FirstListedAuthor ==
    Scanned =>
        \A i \in 1..Len(uploaded_bytes[1]) :
            /\ uploaded_bytes[1][i] \in {CiteAmp(S_Smith, S_Jones, S_2020), CiteAnd(S_Smith, S_Jones, S_2020)}
                  => <<S_Smith, S_2020>> \in Range(scan_results[1].paren_citations)
            /\ uploaded_bytes[1][i] = CiteEtAl(S_Smith, S_nd)
                  => <<S_Smith, S_nd>> \in Range(scan_results[1].paren_citations)

Reordered(doc, o) == [i \in 1..Len(doc) |-> IF i <= Len(o) THEN doc[o[i]] ELSE doc[i]]
Boundary(doc) == IF Headings(doc) = {} THEN Len(doc) + 1 ELSE Least(Headings(doc))

\* C9: the document with the paragraphs before its boundary in any other
\* order has the mentions the scan has found.
C9_OrderOfParagraphs ==
    Scanned =>
        \A o \in Orderings(1..(Boundary(uploaded_bytes[1]) - 1)) :
            CitedOf(Reordered(uploaded_bytes[1], o)) = Mentions(scan_results[1])

(***************************************************************************)
(* Properties of the report                                                *)
(***************************************************************************)

\* a build has shown its report
Reported == report # None /\ report[1].shown

\* the keys of the library
EntryKeys == {reference_key_guess(refs[i]) : i \in 1..Len(refs)}

\* the keys (first word of the author text, year) of the mentions of a set
MentionKeys(mentions) == {<<FirstWord(c[1]), c[2]>> : c \in mentions}

\* seq rises strictly in the order of (author, year)
Rising(seq) == \A i \in 1..(Len(seq) - 1) : KeyLess(seq[i], seq[i + 1])

C10_SameReportTwice ==
    [][(n_builds >= 1 /\ n_builds' = n_builds + 1) => report' = report]_vars

\* a second build in a row whose report lists two missing citations
C10_Witness ==
    /\ n_builds = 2
    /\ Reported
    /\ Len(report[1].missing_in_references) >= 2

Last(seq) == seq[Len(seq)]

\* paragraph i of a tail continues the entry that the paragraphs before it
\* left accumulating: it is not blank and matches neither heuristic
Continues(tail, i) ==
    /\ ~Blank(tail[i])
    /\ LeadingSurname(tail[i]) = None
    /\ ~(tail[i][1] \in Uppers /\ \E k \in 1..75 : ParenYearAt(tail[i], k))
    /\ \E j \in 1..(i - 1) : ~Blank(tail[j])

\* C12, as claimed: a wrapped reference's entry has the key of its first line:
\* the entry made of a paragraph that starts an entry and of the continuation
\* that follows it has the key of the first paragraph.
C12_KeyOfFirstLine ==
    Returned("segment") =>
        \A i \in 2..Len(probe[1].arg) :
            (Continues(probe[1].arg, i) /\ StartsEntry(probe[1].arg[i - 1])) =>
                entryKey(Last(segmentEntries(SubSeq(probe[1].arg, 1, i))))
                    = entryKey(probe[1].arg[i - 1])

\* C12, amended: a continuation paragraph adds no entry, it is appended after
\* one space to the entry being accumulated, and the entry keeps its key if it
\* already held a parenthesized year.
C12_ContinuationIsAppended ==
    Returned("segment") =>
        /\ \A i \in 2..Len(probe[1].arg) :
              Continues(probe[1].arg, i) =>
                  LET before == segmentEntries(SubSeq(probe[1].arg, 1, i - 1))
                      upto == segmentEntries(SubSeq(probe[1].arg, 1, i))
                  IN  /\ Len(upto) = Len(before)
                      /\ Last(upto) = Last(before) \o <<" ">> \o probe[1].arg[i]
                      /\ SubSeq(upto, 1, Len(upto) - 1) = SubSeq(before, 1, Len(before) - 1)
                      /\ (\E k \in 1..Len(Last(before)) : ParenYearAt(Last(before), k))
                            => entryKey(Last(upto)) = entryKey(Last(before))
        /\ probe[1].out = segmentEntries(probe[1].arg)

\* the wrapped reference of Brown: one entry, its key ("brown", "2020")
C12_Witness ==
    /\ Returned("segment")
    /\ probe[1].arg = <<<<"B", "r", "o", "w", "n", ",", " ", "A", ".", " ", "(", "2", "0", "2", "0", ")", ".", " ", "A", " ", "v", "e", "r", "y", " ", "l", "o", "n", "g">>, <<"t", "i", "t", "l", "e", " ", "t", "h", "a", "t", " ", "c", "o", "n", "t", "i", "n", "u", "e", "s", " ", "h", "e", "r", "e", ".", " ", "P", "u", "b", "l", "i", "s", "h", "e", "r", ".">>>>
    /\ Len(probe[1].out) = 1
    /\ entryKey(probe[1].out[1]) = <<<<"b", "r", "o", "w", "n">>, S_2020>>

(***************************************************************************)
(* Properties of the patterns and of the rebuilt document                  *)
(***************************************************************************)

\* in s a capitalized word, and whitespace at most, comes right before index i
CapitalizedWordBefore(s, i) ==
    \E a \in 1..(i - 1) : \E b \in (a + 1)..i :
        /\ s[a] \in Uppers
        /\ \A k \in (a + 1)..(b - 1) : s[k] \in Letters \cup {"-", "'"}
        /\ \A k \in b..(i - 1) : s[k] \in {" ", "\n"}

\* "(" year ")" at index i of s, year four digits or n.d.
YearInParens(s, i) ==
    /\ i + 5 <= Len(s)
    /\ s[i] = "(" /\ s[i + 5] = ")"
    /\ \/ \A d \in 1..4 : s[i + d] \in Digits
       \/ SubSeq(s, i + 1, i + 4) = S_nd

\* C13: a parenthesized year gives no parenthetical mention (every such
\* mention has an author fragment and a comma before its year), and gives a
\* mention at all only where a capitalized word comes right before it; the
\* scan of a text that holds only such years ends with empty results.
C13_YearWithoutAuthor ==
    Scanned =>
        /\ \A c \in Range(scan_results[1].paren_citations) :
              /\ c[1] # <<>>
              /\ \E i \in 1..Len(join(<<"\n">>, uploaded_bytes[1])) :
                    /\ MatchesAt(join(<<"\n">>, uploaded_bytes[1]), i, <<"(">> \o c[1] \o <<",">>)
                    /\ ~YearInParens(join(<<"\n">>, uploaded_bytes[1]), i)
        /\ \A c \in Range(scan_results[1].narr_citations) :
              \E i \in 1..Len(join(<<"\n">>, uploaded_bytes[1])) :
                  /\ YearInParens(join(<<"\n">>, uploaded_bytes[1]), i)
                  /\ SubSeq(join(<<"\n">>, uploaded_bytes[1]), i + 1, i + 4) = c[2]
                  /\ CapitalizedWordBefore(join(<<"\n">>, uploaded_bytes[1]), i)

\* the scan of a document that holds "(2019)" with no word before it
C13_Witness ==
    /\ Scanned
    /\ uploaded_bytes[1] = <<<<"(", "2", "0", "1", "9", ")", " ", "a", "n", "d", " ", "o", "t", "h", "e", "r", "s">>, <<"S", "e", "e", " ", "(", "S", "m", "i", "t", "h", ",", " ", "2", "0", "2", "0", ")", ".">>>>
    /\ scan_results[1].narr_citations = <<>>
    /\ scan_results[1].paren_citations = <<<<S_Smith, S_2020>>>>

\* the paragraphs of doc after its paragraph idx (counted from 0)
After(doc, idx) == SubSeq(doc, idx + 2, Len(doc))

\* C14: after rebuild_references_section the first paragraph
\* find_references_heading_idx finds reads "References" and the paragraphs
\* after it are the formatted references in their order, whether the document
\* had such a heading or not.
C14_HeadingThenReferences ==
    Returned("rebuild_references_section") =>
        /\ find_references_heading_idx(probe[1].out) # None
        /\ probe[1].out[find_references_heading_idx(probe[1].out)[1] + 1] = S_References
        /\ After(probe[1].out, find_references_heading_idx(probe[1].out)[1])
               = probe[1].arg.formatted_refs

\* a document with a heading and paragraphs after it, and one without a
\* heading, both rebuilt with two references
C14_Witness ==
    /\ Returned("rebuild_references_section")
    /\ probe[1].arg.doc = <<<<"I", "n", "t", "r", "o">>, <<" ", "R", "E", "F", "E", "R", "E", "N", "C", "E", "S", "\n">>, <<"R", "e", "f", "e", "r", "e", "n", "c", "e">>>>
    /\ Len(probe[1].arg.formatted_refs) = 2
    /\ probe[1].out = <<<<"I", "n", "t", "r", "o">>, S_References>> \o probe[1].arg.formatted_refs

\* C15: rebuild_references_section leaves the paragraphs before the first
\* "references" heading as they were; in a document without such a heading it
\* leaves every paragraph as it was and only appends.
C15_PrecedingUnchanged ==
    Returned("rebuild_references_section") =>
        IF find_references_heading_idx(probe[1].arg.doc) # None
        THEN /\ Len(probe[1].out) >= find_references_heading_idx(probe[1].arg.doc)[1]
             /\ SubSeq(probe[1].out, 1, find_references_heading_idx(probe[1].arg.doc)[1])
                    = SubSeq(probe[1].arg.doc, 1, find_references_heading_idx(probe[1].arg.doc)[1])
        ELSE /\ Len(probe[1].out) > Len(probe[1].arg.doc)
             /\ SubSeq(probe[1].out, 1, Len(probe[1].arg.doc)) = probe[1].arg.doc

\* a document without a heading that got the break, the heading and a reference
C15_Witness ==
    /\ Returned("rebuild_references_section")
    /\ probe[1].arg.doc = <<<<"I", "n", "t", "r", "o">>, <<"r", "e", "f", "e", "r", "e", "n", "c", "e", "s", ":">>>>
    /\ Len(probe[1].arg.formatted_refs) = 1
    /\ Len(probe[1].out) = 5
    /\ probe[1].out[4] = S_References

(***************************************************************************)
(* Properties of the references manager                                    *)
(***************************************************************************)

\* C16: in every state the actions of the sidebar and of tab 2 reach,
\* edit_idx is None, "NEW" or an index of refs, so that
\* st.session_state.refs[mode] is within the list.
C16_EditIdxWithinRefs ==
    \/ edit_idx = None
    \/ IsNew(edit_idx) /\ edit_idx[1].s = S_NEW
    \/ IsIndex(edit_idx) /\ edit_idx[1].n \in 0..(Len(refs) - 1)

\* a step that saves r through the editor, with either submit button
SaveStep(r) ==
    /\ EditorDrawn
    /\ \E b \in BOOLEAN :
          \E ss \in {ScriptRunTab2(Session, up, imp, SaveEvent(r, b))} : Commit(ss)
    /\ UNCHANGED <<up, imp>>

\* C17: a reference saved through the editor is in refs at the end of the run
\* that follows the save, also while the import uploader holds a file; and
\* the runs of "Add reference", "Edit", "Duplicate" and of taking the file out
\* of the import uploader keep every reference of refs.
C17_SavedReferenceStays ==
    [][/\ \A r \in EditorRefs : SaveStep(r) => r \in Range(refs')
       /\ (AddReference \/ EditReference \/ DuplicateReference \/ RemoveImport)
              => Range(refs) \subseteq Range(refs')]_vars

====
